---- MODULE Spec2Model ----
(***************************************************************************)
(* Model of battlab_one.py: the BattLabOne class (command table,           *)
(* _do_transaction, calibrate, connect, get_sample).                       *)
(*                                                                         *)
(* Conventions                                                             *)
(*  - a Python value that may be None is <<>> (None) or <<x>> (Some(x));   *)
(*  - a bytes object is a sequence of integers 0..255;                     *)
(*  - a command name is the sequence of its "_"-separated tokens, so that  *)
(*    str.startswith('set_voltage_') is a prefix test on tokens;           *)
(*  - a float is an exact fraction <<numerator, denominator>> in lowest   *)
(*    terms (0.0025 is 1/400); rounding is not modelled;                   *)
(*  - the serial stream never raises; a read may come back short (a        *)
(*    cancelled read), which is what the length checks downstream see.     *)
(***************************************************************************)
EXTENDS Integers, Sequences, FiniteSets, TLC

\* ------------------------------------------------------------------ bounds
\* Cap on the number of times one connection's calibration table is written.
MaxCalWrites == 2

\* Cap on the number of times connect is called on the object.
MaxConnects == 1

\* ------------------------------------------------------- Python scaffolding
None == <<>>
Some(x) == <<x>>

\* Python truthiness of an Optional[bool]: None and False are falsy.
Truthy(o) == o # None /\ o[1] = TRUE

\* str.startswith(prefix) for a prefix that ends in "_" (last token empty).
StartsWith(command, prefix) ==
    /\ Len(command) >= Len(prefix)
    /\ \A i \in 1..(Len(prefix) - 1) : command[i] = prefix[i]

\* int.from_bytes(b, 'big'), defined for any length (0 for b'').
FromBytesBig(b) ==
    LET value[n \in 0..Len(b)] == IF n = 0 THEN 0 ELSE value[n - 1] * 256 + b[n]
    IN value[Len(b)]

HexChars == <<"0","1","2","3","4","5","6","7","8","9","a","b","c","d","e","f">>

\* bytes.hex(b): two lowercase hex digits per byte ('' for b'').
BytesHex(b) ==
    [i \in 1..(2 * Len(b)) |->
        IF i % 2 = 1 THEN HexChars[(b[(i + 1) \div 2] \div 16) + 1]
        ELSE HexChars[(b[i \div 2] % 16) + 1]]

\* struct.pack('>17H', ...) as the device firmware lays the table out.
PackBE16(values) ==
    [i \in 1..(2 * Len(values)) |->
        IF i % 2 = 1 THEN values[(i + 1) \div 2] \div 256
        ELSE values[i \div 2] % 256]

RECURSIVE GCD(_, _)
GCD(a, b) == IF b = 0 THEN a ELSE GCD(b, a % b)

\* The fraction n/d (d > 0) in lowest terms, so that equal floats are equal
\* pairs.
Frac(n, d) == << n \div GCD(n, d), d \div GCD(n, d) >>

\* ------------------------------------------------------------ command names
set_voltage_1v2  == <<"set", "voltage", "1v2">>
set_voltage_1v5  == <<"set", "voltage", "1v5">>
set_voltage_2v4  == <<"set", "voltage", "2v4">>
set_voltage_3v0  == <<"set", "voltage", "3v0">>
set_voltage_3v2  == <<"set", "voltage", "3v2">>
set_voltage_3v6  == <<"set", "voltage", "3v6">>
set_voltage_3v7  == <<"set", "voltage", "3v7">>
set_voltage_4v2  == <<"set", "voltage", "4v2">>
set_voltage_4v5  == <<"set", "voltage", "4v5">>
set_psu_on       == <<"set", "psu", "on">>
set_psu_off      == <<"set", "psu", "off">>
get_calibration  == <<"get", "calibration">>
get_config       == <<"get", "config">>
get_version      == <<"get", "version">>
set_current_low  == <<"set", "current", "low">>
set_current_high == <<"set", "current", "high">>
set_averages_1   == <<"set", "averages", "1">>
set_averages_4   == <<"set", "averages", "4">>
set_averages_16  == <<"set", "averages", "16">>
set_averages_64  == <<"set", "averages", "64">>
reset            == <<"reset">>
set_sample_trig  == <<"set", "sample", "trig">>
set_sample_off   == <<"set", "sample", "off">>
set_sample_on    == <<"set", "sample", "on">>

\* The prefixes tested by _do_transaction.
set_voltage_ == <<"set", "voltage", "">>
set_current_ == <<"set", "current", "">>

\* Names a caller may pass that the table does not hold.
UnregisteredNames ==
    { <<"reboot">>, <<"set", "voltage", "5v0">> }

\* ------------------------------------------------------------ command table
\* Transaction = namedtuple('cmd,response_size,postprocess',
\*                          defaults=[0, bytes.hex])
Transaction(cmd, response_size, postprocess) ==
    [cmd |-> cmd, response_size |-> response_size, postprocess |-> postprocess]

\* Mutant: the default decoder hands the response bytes back (lambda b: b).
TransactionDefaultMut(cmd) == Transaction(cmd, 0, "identity")

TransactionDefault(cmd) == Transaction(cmd, 0, "bytes.hex")

transactions ==
    (set_voltage_1v2  :> TransactionDefault(<<97>>))  @@
    (set_voltage_1v5  :> TransactionDefault(<<98>>))  @@
    (set_voltage_2v4  :> TransactionDefault(<<99>>))  @@
    (set_voltage_3v0  :> TransactionDefault(<<100>>)) @@
    (set_voltage_3v2  :> TransactionDefault(<<111>>)) @@
    (set_voltage_3v6  :> TransactionDefault(<<110>>)) @@
    (set_voltage_3v7  :> TransactionDefault(<<101>>)) @@
    (set_voltage_4v2  :> TransactionDefault(<<102>>)) @@
    (set_voltage_4v5  :> TransactionDefault(<<103>>)) @@
    (set_psu_on       :> TransactionDefault(<<104>>)) @@
    (set_psu_off      :> TransactionDefault(<<105>>)) @@
    (get_calibration  :> Transaction(<<106>>, 34, "identity")) @@
    (get_config       :> Transaction(<<109>>, 4, "bytes.hex")) @@
    (get_version      :> Transaction(<<112>>, 2, "version")) @@
    (set_current_low  :> TransactionDefault(<<107>>)) @@
    (set_current_high :> TransactionDefault(<<108>>)) @@
    (set_averages_1   :> TransactionDefault(<<115>>)) @@
    (set_averages_4   :> TransactionDefault(<<116>>)) @@
    (set_averages_16  :> TransactionDefault(<<117>>)) @@
    (set_averages_64  :> TransactionDefault(<<118>>)) @@
    (reset            :> Transaction(<<119>>, 0, "sleep1")) @@
    (set_sample_trig  :> TransactionDefault(<<120>>)) @@
    (set_sample_off   :> TransactionDefault(<<121>>)) @@
    (set_sample_on    :> TransactionDefault(<<122>>))

\* Mutant: set_voltage_3v2 is given a scale slot of its own.
cal_indexesMut ==
    (set_voltage_1v2 :> 0) @@ (set_voltage_1v5 :> 1) @@ (set_voltage_2v4 :> 2) @@
    (set_voltage_3v0 :> 3) @@ (set_voltage_3v2 :> 4) @@ (set_voltage_3v6 :> 5) @@
    (set_voltage_3v7 :> 6) @@ (set_voltage_4v2 :> 7) @@ (set_voltage_4v5 :> 8)

\* indexes into the calibration data for sense resistor scaling values
cal_indexes ==
    (set_voltage_1v2 :> 0) @@ (set_voltage_1v5 :> 1) @@ (set_voltage_2v4 :> 2) @@
    (set_voltage_3v0 :> 3) @@ (set_voltage_3v2 :> 3) @@ (set_voltage_3v6 :> 4) @@
    (set_voltage_3v7 :> 5) @@ (set_voltage_4v2 :> 6) @@ (set_voltage_4v5 :> 7)

\* Mutant: the entry of set_voltage_4v5 is missing.
offset_indexesMut ==
    (set_voltage_1v2 :> 8)  @@ (set_voltage_1v5 :> 9)  @@ (set_voltage_2v4 :> 10) @@
    (set_voltage_3v0 :> 11) @@ (set_voltage_3v2 :> 12) @@ (set_voltage_3v6 :> 13) @@
    (set_voltage_3v7 :> 14) @@ (set_voltage_4v2 :> 15)

\* indexes into the calibration data for sleep current offset values
offset_indexes ==
    (set_voltage_1v2 :> 8)  @@ (set_voltage_1v5 :> 9)  @@ (set_voltage_2v4 :> 10) @@
    (set_voltage_3v0 :> 11) @@ (set_voltage_3v2 :> 12) @@ (set_voltage_3v6 :> 13) @@
    (set_voltage_3v7 :> 14) @@ (set_voltage_4v2 :> 15) @@ (set_voltage_4v5 :> 16)

CommandNames == DOMAIN transactions \cup UnregisteredNames

\* ------------------------------------------------------------------ device
\* Calibration tables a device may hold (17 unsigned 16-bit values).
CalTableSeq  == [i \in 1..17 |-> 1000 + 100 * (i - 1)]
CalTableZero == [i \in 1..17 |-> IF i \in {1, 4} THEN 0 ELSE 65535 - i]
CalPayloads == { PackBE16(CalTableSeq), PackBE16(CalTableZero) }

\* Firmware versions 1.001 and 1.003 as the two bytes of get_version.
VersionPayloads == { <<3, 233>>, <<3, 235>> }

ConfigPayload == <<1, 0, 171, 205>>

\* Raw samples the device streams.
SamplePayloads == { <<0, 100>>, <<255, 255>> }

\* Lengths at which a read may come back short.
ShortReads == {33}

\* What sp.read(Len(data)) may return when the device holds data.
ReadResults(data) ==
    { SubSeq(data, 1, n) : n \in {Len(data)} \cup {m \in ShortReads : m < Len(data)} }

\* ------------------------------------------------------------------- state
VARIABLES
    timeBound,          \* the module global `time` is bound (run as __main__)
    devCal,             \* the 34 bytes the device answers to 'j'
    sp,                 \* self.sp: None or Some("Serial")
    calibration_data,   \* self.calibration_data: None or Some(17 values)
    cal_adj,            \* self.cal_adj: None or Some(fraction)
    offset,             \* self.offset: None or Some(integer)
    low_current,        \* self.low_current: None or Some(boolean)
    call,               \* the most recent call: what it did and how it ended
    everVoltage,        \* some set_voltage_* byte was written by this object
    sentCurrent,        \* last set_current_* name this object wrote, or None
    firstCmd,           \* first command bytes written on the current connection
    calWrites,          \* assignments to calibration_data on this connection
    connected,          \* the most recent connect returned normally
    connects,           \* calls of connect so far
    pc,                 \* where the __main__ block stands ("import": not run)
    all_ports,          \* what serial.tools.list_ports.comports() lists
    cmdIdx,             \* position of the for loop of line 144 in cmds
    sampling,           \* __main__ wrote set_sample_on and no set_sample_off since
    uncaught            \* the exception that ended __main__, "" when none

mainVars == << pc, all_ports, cmdIdx, sampling, uncaught >>

vars == << timeBound, devCal, sp, calibration_data, cal_adj, offset, low_current,
           call, everVoltage, sentCurrent, firstCmd, calWrites, connected, connects,
           pc, all_ports, cmdIdx, sampling, uncaught >>

\* Some set_current_* byte was written by this object.
everCurrent == sentCurrent # None

\* ------------------------------------------------------------ stream steps
WriteStep(data) == [op |-> "write", data |-> data, n |-> Len(data)]
ReadStep(size)  == [op |-> "read",  data |-> <<>>, n |-> size]
SleepStep(ms)   == [op |-> "sleep", data |-> <<>>, n |-> ms]
StateStep       == [op |-> "state", data |-> <<>>, n |-> 0]
PostStep        == [op |-> "postprocess", data |-> <<>>, n |-> 0]

\* Python values handed back to the caller.
NoneValue      == [type |-> "NoneType", v |-> <<>>]
StrValue(s)    == [type |-> "str", v |-> s]
BytesValue(b)  == [type |-> "bytes", v |-> b]
FloatValue(q)  == [type |-> "float", v |-> q]
SelfValue      == [type |-> "BattLabOne", v |-> <<>>]

Return(value) == [kind |-> "return", exc |-> "", value |-> value]
Raise(exc)    == [kind |-> "raise", exc |-> exc, value |-> NoneValue]

\* ------------------------------------------------------- _do_transaction
\* Mutant: transactions.get(command, <some default>) in place of the lookup.
LookupMut(command) ==
    IF command \in DOMAIN transactions THEN Some(transactions[command])
    ELSE Some(TransactionDefault(<<63>>))

\* transactions[command]: the entry, or None where Python raises KeyError.
Lookup(command) ==
    IF command \in DOMAIN transactions THEN Some(transactions[command]) ELSE None

\* Mutant: the read asks for one byte more than the table declares.
WireStepsMut(transaction) ==
    << WriteStep(transaction.cmd), ReadStep(transaction.response_size + 1) >>

\* self.sp.write(transaction.cmd); self.sp.read(transaction.response_size)
WireSteps(transaction) ==
    << WriteStep(transaction.cmd), ReadStep(transaction.response_size) >>

\* if transaction.response_size == 0: time.sleep(0.01)
SettleNeeded(transaction) == transaction.response_size = 0

\* self.cal_adj = self.calibration_data[cal_indexes[command]]/1000
NewCalAdj(command, cal) == Frac(cal[cal_indexes[command] + 1], 1000)

\* self.offset = self.calibration_data[offset_indexes[command]]
NewOffset(command, cal) == cal[offset_indexes[command] + 1]

\* self.low_current = command == 'set_current_low'
NewLowCurrent(command) == command = set_current_low

\* if command.startswith('set_voltage_'): self.cal_adj = ...
CalAdjAfter(command, adj) ==
    IF StartsWith(command, set_voltage_)
    THEN Some(NewCalAdj(command, calibration_data[1])) ELSE adj

\* if command.startswith('set_voltage_'): ...; self.offset = ...
OffsetAfter(command, off) ==
    IF StartsWith(command, set_voltage_)
    THEN Some(NewOffset(command, calibration_data[1])) ELSE off

\* Mutant: the assignment to low_current is not guarded by the prefix test.
LowAfterMut(command, low) == Some(NewLowCurrent(command))

\* if command.startswith('set_current_'): self.low_current = ...
LowAfter(command, low) ==
    IF StartsWith(command, set_current_) THEN Some(NewLowCurrent(command)) ELSE low

\* The steps of a call once lines 103-110 have run.
WithStateStep(command, steps) ==
    IF StartsWith(command, set_voltage_) \/ StartsWith(command, set_current_)
    THEN Append(steps, StateStep) ELSE steps

\* The record a transaction leaves: the steps it took, how it ended and the
\* values of the three fields it may assign.
TxnResult(steps, outcome, adj, off, low) ==
    [steps |-> steps, outcome |-> outcome, cal_adj |-> adj, offset |-> off,
     low_current |-> low]

Unchanged(steps, outcome) == TxnResult(steps, outcome, cal_adj, offset, low_current)

\* return transaction.postprocess(response); NameError where `time` is unbound.
Postprocess(kind, response, steps, adj, off, low) ==
    CASE kind = "bytes.hex" ->
            TxnResult(Append(steps, PostStep), Return(StrValue(BytesHex(response))),
                      adj, off, low)
      [] kind = "identity" ->
            TxnResult(Append(steps, PostStep), Return(BytesValue(response)), adj, off, low)
      [] kind = "version" ->
            TxnResult(Append(steps, PostStep),
                      Return(FloatValue(Frac(FromBytesBig(response), 1000))), adj, off, low)
      [] kind = "sleep1" ->
            IF timeBound
            THEN TxnResult(Append(steps, PostStep) \o << SleepStep(1000) >>,
                           Return(NoneValue), adj, off, low)
            ELSE TxnResult(Append(steps, PostStep), Raise("NameError"), adj, off, low)

\* Mutant: the decoder's value is returned before the state update is reached.
UpdateStateMut(command, transaction, response, settled) ==
    Postprocess(transaction.postprocess, response, settled, cal_adj, offset, low_current)

\* Lines 103-112: the state update, then the decoder.  A dict or table lookup
\* that fails raises where Python raises.
UpdateState(command, transaction, response, settled) ==
    IF ~StartsWith(command, set_voltage_)
    THEN Postprocess(transaction.postprocess, response, WithStateStep(command, settled),
                     cal_adj, offset, LowAfter(command, low_current))
    ELSE IF calibration_data = None THEN Unchanged(settled, Raise("TypeError"))
    ELSE IF command \notin DOMAIN cal_indexes THEN Unchanged(settled, Raise("KeyError"))
    ELSE IF command \notin DOMAIN offset_indexes
    THEN TxnResult(settled, Raise("KeyError"), CalAdjAfter(command, cal_adj), offset,
                   low_current)
    ELSE Postprocess(transaction.postprocess, response, WithStateStep(command, settled),
                     CalAdjAfter(command, cal_adj), OffsetAfter(command, offset),
                     LowAfter(command, low_current))

\* Lines 99-101: the settle delay after a command with no response.
Settle(command, transaction, response, wire) ==
    IF ~SettleNeeded(transaction) THEN UpdateState(command, transaction, response, wire)
    ELSE IF ~timeBound THEN Unchanged(wire, Raise("NameError"))
    ELSE UpdateState(command, transaction, response, Append(wire, SleepStep(10)))

\* Lines 95-97 on a looked-up entry: write the command, read the response.
WriteRead(command, found, spv, response) ==
    IF found = None THEN Unchanged(<<>>, Raise("KeyError"))
    ELSE IF spv = None THEN Unchanged(<<>>, Raise("AttributeError"))
    ELSE Settle(command, found[1], response, WireSteps(found[1]))

\* _do_transaction(command) on a stream spv that answers the read with response.
DoTransaction(command, spv, response) ==
    WriteRead(command, Lookup(command), spv, response)

\* What the device sends back for a command.
DeviceData(command) ==
    IF command = get_calibration THEN { devCal }
    ELSE IF command = get_version THEN VersionPayloads
    ELSE IF command = get_config THEN { ConfigPayload }
    ELSE { <<>> }

\* The bytes a call got from the stream (nothing when it never read).
Received(steps, response) ==
    IF \E i \in 1..Len(steps) : steps[i].op = "read" THEN response ELSE <<>>

\* -------------------------------------------------------------- calibrate
\* Mutant: a short payload is zero-padded instead of rejected.
StructUnpack17HMut(raw) ==
    Some([i \in 1..17 |-> (IF 2 * i - 1 <= Len(raw) THEN raw[2 * i - 1] ELSE 0) * 256
                           + (IF 2 * i <= Len(raw) THEN raw[2 * i] ELSE 0)])

\* struct.unpack('>17H', raw): None where Python raises struct.error.
StructUnpack17H(raw) ==
    IF Len(raw) = 34
    THEN Some([i \in 1..17 |-> raw[2 * i - 1] * 256 + raw[2 * i]])
    ELSE None

\* What calibrate() leaves: the transaction it ran, how it ended, the table.
CalResult(txn, outcome, table, wrote) ==
    [txn |-> txn, outcome |-> outcome, calibration_data |-> table, wrote |-> wrote]

\* self.calibration_data = struct.unpack('>17H', calibration_data_raw)
StoreUnpacked(txn, unpacked) ==
    IF unpacked = None
    THEN CalResult(txn, Raise("struct.error"), calibration_data, FALSE)
    ELSE CalResult(txn, Return(NoneValue), unpacked, TRUE)

\* Line 92 applied to what the transaction of line 91 returned.
UnpackFrom(txn) ==
    IF txn.outcome.kind = "raise"
    THEN CalResult(txn, txn.outcome, calibration_data, FALSE)
    ELSE StoreUnpacked(txn, StructUnpack17H(txn.outcome.value.v))

\* Mutant: calibrate() issues get_config where it should issue get_calibration.
DoCalibrateMut(spv, response) ==
    UnpackFrom(WriteRead(get_calibration, Some(transactions[get_config]), spv, response))

\* calibrate() on stream spv: the transaction, then the unpack.
DoCalibrate(spv, response) ==
    UnpackFrom(DoTransaction(get_calibration, spv, response))

\* ------------------------------------------------------------- get_sample
\* Mutant: 99 unless low_current is False (None treated as the low range).
SenseResistorScaleNoneMut(low, adj) ==
    IF low # Some(FALSE) THEN Some(<<99, 1>>) ELSE adj

\* Mutant: the low-current range is ignored, cal_adj is always the scale.
SenseResistorScaleAdjMut(low, adj) == adj

\* sense_resistor_scale = 99 if self.low_current else self.cal_adj
SenseResistorScale(low, adj) == IF Truthy(low) THEN Some(<<99, 1>>) ELSE adj

\* Mutant: the conversion factor is 0.025.
CurrentmAMut(sample, scale) == Frac(sample * scale[2], 40 * scale[1])

\* current_mA = sample * 0.0025 / sense_resistor_scale
CurrentmA(sample, scale) == Frac(sample * scale[2], 400 * scale[1])

\* Mutant: the command byte of set_sample_trig is written before each read.
SampleStepsMut == << WriteStep(<<120>>), ReadStep(2) >>

\* raw_sample = self.sp.read(2): the only stream step of get_sample.
SampleSteps == << ReadStep(2) >>

SampleResult(steps, scale, outcome) ==
    [steps |-> steps, scale |-> scale, outcome |-> outcome]

\* Lines 118-120 on a decoded sample and the selected scale.
Decode(sample, scale) ==
    IF scale = None THEN SampleResult(SampleSteps, scale, Raise("TypeError"))
    ELSE IF scale[1][1] = 0
    THEN SampleResult(SampleSteps, scale, Raise("ZeroDivisionError"))
    ELSE SampleResult(SampleSteps, scale,
                      Return(FloatValue(CurrentmA(sample, scale[1]))))

\* get_sample() on a stream spv that answers the read with raw.
DoGetSample(spv, raw) ==
    IF spv = None THEN SampleResult(<<>>, None, Raise("AttributeError"))
    ELSE Decode(FromBytesBig(raw), SenseResistorScale(low_current, cal_adj))

\* ------------------------------------------------------------ bookkeeping
Wrote(steps) == \E i \in 1..Len(steps) : steps[i].op = "write"

\* The first command written on the connection, once steps have been taken.
FirstCmdAfter(first, steps) ==
    IF first = None /\ Wrote(steps) THEN Some(steps[1].data) ELSE first

CallRecord(op, command, steps, outcome, scale, raw) ==
    [op |-> op, command |-> command, steps |-> steps, outcome |-> outcome,
     scale |-> scale, raw |-> raw]

\* ----------------------------------------------------------------- actions
\* The object as __init__ leaves it before connect: every field None.
Constructed ==
    /\ sp = None
    /\ calibration_data = None
    /\ cal_adj = None
    /\ offset = None
    /\ low_current = None
    /\ call = CallRecord("__init__", <<>>, <<>>, Return(NoneValue), None, <<>>)
    /\ everVoltage = FALSE
    /\ sentCurrent = None
    /\ firstCmd = None
    /\ calWrites = 0
    /\ connected = FALSE
    /\ connects = 0

\* BattLabOne(): no device given.  The module is either imported (line 123
\* false, `time` unbound) or its callers run in a process where line 125 ran.
Init ==
    /\ timeBound \in BOOLEAN
    /\ devCal \in CalPayloads
    /\ Constructed
    /\ pc = "import"
    /\ all_ports = {}
    /\ cmdIdx = 1
    /\ sampling = FALSE
    /\ uncaught = ""

\* The fields after calibrate() ended as r.
CalibrateFields(r) ==
    /\ calibration_data' = r.calibration_data
    /\ cal_adj' = r.txn.cal_adj
    /\ offset' = r.txn.offset
    /\ low_current' = r.txn.low_current

\* connect(device) whose calibrate() ended as r: return self, or the exception.
ConnectEnds(r, response) ==
    /\ sp' = Some("Serial")
    /\ CalibrateFields(r)
    /\ call' = CallRecord("connect", <<>>, r.txn.steps,
                          IF r.outcome.kind = "return" THEN Return(SelfValue)
                          ELSE r.outcome,
                          None, Received(r.txn.steps, response))
    /\ firstCmd' = FirstCmdAfter(None, r.txn.steps)
    /\ calWrites' = IF r.wrote THEN 1 ELSE 0
    /\ connected' = (r.outcome.kind = "return")

\* connect(device): open the port, reset both buffers, calibrate().
Connect ==
    /\ connects < MaxConnects
    /\ connects' = connects + 1
    /\ \E response \in ReadResults(devCal) :
         ConnectEnds(DoCalibrate(Some("Serial"), response), response)
    /\ UNCHANGED << timeBound, devCal, everVoltage, sentCurrent >>
    /\ UNCHANGED mainVars

CalibrateEnds(r, response) ==
    /\ CalibrateFields(r)
    /\ call' = CallRecord("calibrate", <<>>, r.txn.steps, r.outcome, None,
                          Received(r.txn.steps, response))
    /\ firstCmd' = FirstCmdAfter(firstCmd, r.txn.steps)
    /\ calWrites' = IF r.wrote THEN calWrites + 1 ELSE calWrites

\* calibrate() called by the user of the class.
Calibrate ==
    /\ calWrites < MaxCalWrites
    /\ \E response \in ReadResults(devCal) :
         CalibrateEnds(DoCalibrate(sp, response), response)
    /\ UNCHANGED << timeBound, devCal, sp, everVoltage, sentCurrent, connected,
                    connects >>
    /\ UNCHANGED mainVars

ExecuteEnds(command, r, response) ==
    /\ cal_adj' = r.cal_adj
    /\ offset' = r.offset
    /\ low_current' = r.low_current
    /\ call' = CallRecord("_do_transaction", command, r.steps, r.outcome, None,
                          Received(r.steps, response))
    /\ firstCmd' = FirstCmdAfter(firstCmd, r.steps)
    /\ everVoltage' = (everVoltage \/ (Wrote(r.steps) /\ StartsWith(command, set_voltage_)))
    /\ sentCurrent' = IF Wrote(r.steps) /\ StartsWith(command, set_current_)
                      THEN Some(command) ELSE sentCurrent

\* _do_transaction(command) called by the user of the class.
Execute(command) ==
    /\ \E data \in DeviceData(command) : \E response \in ReadResults(data) :
         ExecuteEnds(command, DoTransaction(command, sp, response), response)
    /\ UNCHANGED << timeBound, devCal, sp, calibration_data, calWrites, connected,
                    connects >>
    /\ UNCHANGED mainVars

GetSampleEnds(r, raw) ==
    call' = CallRecord("get_sample", <<>>, r.steps, r.outcome, r.scale,
                       Received(r.steps, raw))

\* get_sample() called by the user of the class.
GetSample ==
    /\ \E data \in SamplePayloads : \E raw \in ReadResults(data) :
         GetSampleEnds(DoGetSample(sp, raw), raw)
    /\ UNCHANGED << timeBound, devCal, sp, calibration_data, cal_adj, offset,
                    low_current, everVoltage, sentCurrent, firstCmd, calWrites,
                    connected, connects >>
    /\ UNCHANGED mainVars

Next ==
    \/ Connect
    \/ Calibrate
    \/ \E command \in CommandNames : Execute(command)
    \/ GetSample

Spec == Init /\ [][Next]_vars

\* ------------------------------------------------------------- __main__
\* The serial ports a machine may list: two BattLab Ones, an FTDI adapter
\* that is not one, and a port of another vendor.
PortUniverse ==
    { [vid |-> 1027, pid |-> 24577, serial_number |-> <<"B", "B", "0", "1">>,
       device |-> "ttyUSB0"],
      [vid |-> 1027, pid |-> 24577, serial_number |-> <<"B", "B", "0", "2">>,
       device |-> "ttyUSB1"],
      [vid |-> 1027, pid |-> 24577, serial_number |-> <<"A", "6">>,
       device |-> "ttyUSB2"],
      [vid |-> 9025, pid |-> 67, serial_number |-> <<"B", "B", "0", "3">>,
       device |-> "ttyACM0"] }

\* p.vid == 0x0403 and p.pid == 0x6001 and p.serial_number[:2] == "BB"
battlab_one_ports ==
    { p \in all_ports :
        /\ p.vid = 1027
        /\ p.pid = 24577
        /\ SubSeq(p.serial_number, 1, 2) = <<"B", "B">> }

cmds == << set_voltage_1v2, set_current_high, set_averages_64, set_psu_on >>

\* The program run as a script: line 125 has bound `time`.
MainInit ==
    /\ timeBound = TRUE
    /\ devCal \in CalPayloads
    /\ Constructed
    /\ pc = "comports"
    /\ all_ports \in SUBSET PortUniverse
    /\ cmdIdx = 1
    /\ sampling = FALSE
    /\ uncaught = ""

\* A call that returns lets the program go on at `next`; an exception is not
\* caught anywhere in the block and ends the program.
Proceed(outcome, next) ==
    /\ pc' = IF outcome.kind = "return" THEN next ELSE "exit"
    /\ uncaught' = IF outcome.kind = "return" THEN uncaught ELSE outcome.exc

\* Lines 128-137: list the ports, keep the BattLab Ones, demand exactly one.
MainDiscover ==
    /\ pc = "comports"
    /\ Proceed(IF Cardinality(battlab_one_ports) = 1 THEN Return(NoneValue)
               ELSE Raise("RuntimeError"), "BattLabOne")
    /\ UNCHANGED << timeBound, devCal, sp, calibration_data, cal_adj, offset,
                    low_current, call, everVoltage, sentCurrent, firstCmd,
                    calWrites, connected, connects, all_ports, cmdIdx, sampling >>

MainConnectEnds(r, response) ==
    /\ ConnectEnds(r, response)
    /\ Proceed(r.outcome, "reset")

\* Line 138: b = BattLabOne(device), which connects and calibrates.
MainConstruct ==
    /\ pc = "BattLabOne"
    /\ connects' = connects + 1
    /\ \E response \in ReadResults(devCal) :
         MainConnectEnds(DoCalibrate(Some("Serial"), response), response)
    /\ UNCHANGED << timeBound, devCal, everVoltage, sentCurrent, all_ports,
                    cmdIdx, sampling >>

MainExecuteEnds(command, r, response, next) ==
    /\ ExecuteEnds(command, r, response)
    /\ Proceed(r.outcome, next)
    /\ sampling' = IF Wrote(r.steps) /\ command = set_sample_on THEN TRUE
                   ELSE IF Wrote(r.steps) /\ command = set_sample_off THEN FALSE
                   ELSE sampling

\* b._do_transaction(command) at one line of the block.
MainExecute(command, next) ==
    /\ \E data \in DeviceData(command) : \E response \in ReadResults(data) :
         MainExecuteEnds(command, DoTransaction(command, sp, response), response, next)
    /\ UNCHANGED << timeBound, devCal, sp, calibration_data, calWrites, connected,
                    connects, all_ports >>

\* Line 140.
MainReset ==
    /\ pc = "reset"
    /\ MainExecute(reset, "get_version")
    /\ UNCHANGED cmdIdx

\* Line 141.
MainGetVersion ==
    /\ pc = "get_version"
    /\ MainExecute(get_version, "cmds")
    /\ UNCHANGED cmdIdx

\* Lines 143-146: one turn of the for loop over cmds.
MainCmds ==
    /\ pc = "cmds"
    /\ MainExecute(cmds[cmdIdx], IF cmdIdx < Len(cmds) THEN "cmds" ELSE "sleep")
    /\ cmdIdx' = IF cmdIdx < Len(cmds) THEN cmdIdx + 1 ELSE cmdIdx

\* Line 147: time.sleep(10).
MainSleep ==
    /\ pc = "sleep"
    /\ pc' = "set_sample_on"
    /\ UNCHANGED << timeBound, devCal, sp, calibration_data, cal_adj, offset,
                    low_current, call, everVoltage, sentCurrent, firstCmd,
                    calWrites, connected, connects, all_ports, cmdIdx, sampling,
                    uncaught >>

\* Line 149.
MainSampleOn ==
    /\ pc = "set_sample_on"
    /\ MainExecute(set_sample_on, "get_sample")
    /\ UNCHANGED cmdIdx

MainGetSampleEnds(r, raw) ==
    /\ GetSampleEnds(r, raw)
    /\ Proceed(r.outcome, "print")

\* Line 157: current_mA = b.get_sample().
MainGetSample ==
    /\ pc = "get_sample"
    /\ \E data \in SamplePayloads : \E raw \in ReadResults(data) :
         MainGetSampleEnds(DoGetSample(sp, raw), raw)
    /\ UNCHANGED << timeBound, devCal, sp, calibration_data, cal_adj, offset,
                    low_current, everVoltage, sentCurrent, firstCmd, calWrites,
                    connected, connects, all_ports, cmdIdx, sampling >>

\* Line 158: print(current_mA, file=f).  No `f` is bound anywhere in the
\* module, so evaluating the argument raises NameError; lines 159-168 are
\* never reached.
MainPrint ==
    /\ pc = "print"
    /\ Proceed(Raise("NameError"), "sample_sum")
    /\ UNCHANGED << timeBound, devCal, sp, calibration_data, cal_adj, offset,
                    low_current, call, everVoltage, sentCurrent, firstCmd,
                    calWrites, connected, connects, all_ports, cmdIdx, sampling >>

MainNext ==
    \/ MainDiscover
    \/ MainConstruct
    \/ MainReset
    \/ MainGetVersion
    \/ MainCmds
    \/ MainSleep
    \/ MainSampleOn
    \/ MainGetSample
    \/ MainPrint

MainSpec == MainInit /\ [][MainNext]_vars

\* ------------------------------------------------------- error taxonomy
\* The exceptions the code raises, under the names the specification uses.
UnknownCommand == "KeyError"
ProtocolError  == "struct.error"
InvalidState   == "TypeError"

\* --------------------------------------------------------- helpers of claims
IsWrite(step) == step.op = "write"
IsRead(step)  == step.op = "read"

\* The command a call of the transaction engine ran.
EngineCommand(c) ==
    IF c.op = "_do_transaction" THEN c.command ELSE get_calibration

IsEngineCall(c) ==
    /\ c.op \in {"_do_transaction", "connect", "calibrate"}
    /\ EngineCommand(c) \in DOMAIN transactions

IsVoltage(command) == StartsWith(command, set_voltage_)
IsCurrent(command) == StartsWith(command, set_current_)

\* ---------------------------------------------------------------- claims
\* C1: one call of the transaction engine for a registered command, on an
\* open stream, writes that command's single wire byte exactly once, then
\* issues exactly one read, of the command's declared response length
\* (0, 2, 4 or 34), and touches the stream in no other way.
C1_WireExact ==
    (IsEngineCall(call) /\ sp # None) =>
        LET t == transactions[EngineCommand(call)] IN
        /\ Len(t.cmd) = 1
        /\ t.response_size \in {0, 2, 4, 34}
        /\ Len(call.steps) >= 2
        /\ call.steps[1] = WriteStep(t.cmd)
        /\ call.steps[2] = ReadStep(t.response_size)
        /\ SelectSeq(call.steps, IsWrite) = << WriteStep(t.cmd) >>
        /\ SelectSeq(call.steps, IsRead) = << ReadStep(t.response_size) >>

C1_Witness ==
    /\ call.op = "_do_transaction"
    /\ call.command = get_calibration
    /\ call.steps = << WriteStep(<<106>>), ReadStep(34), PostStep >>
    /\ Len(call.raw) = 34

\* C2: after a connect that returned normally, when a set_voltage_* command
\* has just been executed (its byte written to the stream), cal_adj is the
\* calibration entry at that command's scale index divided by 1000 and
\* offset is the entry at its offset index, whatever was selected before.
C2_LastVoltageWins ==
    (/\ connected
     /\ call.op = "_do_transaction"
     /\ call.command \in DOMAIN cal_indexes
     /\ call.steps # <<>>)
        => /\ calibration_data # None
           /\ cal_adj = Some(Frac(calibration_data[1][cal_indexes[call.command] + 1], 1000))
           /\ offset = Some(calibration_data[1][offset_indexes[call.command] + 1])

\* C3: when a set_current_* command has just been executed (its byte written
\* to the stream), low_current is true exactly when that command was
\* set_current_low.
C3_LastCurrentWins ==
    (/\ connected
     /\ call.op = "_do_transaction"
     /\ call.command \in {set_current_low, set_current_high}
     /\ call.steps # <<>>)
        => ((low_current = Some(TRUE)) <=> (call.command = set_current_low))

\* C4: a set_voltage_* command leaves low_current alone, a set_current_*
\* command leaves cal_adj and offset alone, and every other command, as well
\* as get_sample, leaves cal_adj, offset and low_current all alone.
C4_FrameEffects ==
    [][ /\ (call'.op = "_do_transaction" /\ IsVoltage(call'.command))
            => low_current' = low_current
        /\ (call'.op = "_do_transaction" /\ IsCurrent(call'.command))
            => (cal_adj' = cal_adj /\ offset' = offset)
        /\ (\/ call'.op = "get_sample"
            \/ (call'.op = "_do_transaction" /\ ~IsVoltage(call'.command)
                                           /\ ~IsCurrent(call'.command)))
            => (cal_adj' = cal_adj /\ offset' = offset /\ low_current' = low_current)
      ]_vars

C4_Witness ==
    /\ call.op = "_do_transaction"
    /\ call.command = set_voltage_3v7
    /\ call.outcome.kind = "return"
    /\ cal_adj # None
    /\ low_current = Some(TRUE)

\* C5: get_sample on an open stream, on an object on which no set_voltage_*
\* and no set_current_* command was ever executed, raises (TypeError, the
\* specification's InvalidState) and returns no current value.
C5_SampleBeforeSelection ==
    (call.op = "get_sample" /\ sp # None /\ ~everVoltage /\ ~everCurrent) =>
        call.outcome = Raise(InvalidState)

C5_Witness ==
    /\ call.op = "get_sample"
    /\ connected
    /\ ~everVoltage /\ ~everCurrent
    /\ Len(call.raw) = 2
    /\ call.outcome.kind = "raise"

\* C6: a command name that is not in the command table raises KeyError (the
\* specification's UnknownCommand) before any stream step, and leaves
\* cal_adj, offset, low_current and the calibration table unchanged.
C6_UnknownCommand ==
    [][ (call'.op = "_do_transaction" /\ call'.command \notin DOMAIN transactions)
            => /\ call'.outcome = Raise(UnknownCommand)
               /\ call'.steps = <<>>
               /\ firstCmd' = firstCmd
               /\ cal_adj' = cal_adj /\ offset' = offset /\ low_current' = low_current
               /\ calibration_data' = calibration_data
      ]_vars

C6_Witness ==
    /\ call.op = "_do_transaction"
    /\ call.command = <<"set", "voltage", "5v0">>
    /\ call.outcome = Raise(UnknownCommand)
    /\ connected
    /\ cal_adj = None

\* C7 as stated: once connect has populated the calibration table, it has
\* been written exactly once on that connection and is never written again.
C7_PopulatedOnce ==
    connected => calWrites = 1

\* C7 amended: the table is written only by connect or by a call of
\* calibrate, each time from a get_calibration transaction that returned 34
\* bytes; connect's get_calibration is the first command written to the
\* stream and a connect that returns has written the table exactly once;
\* _do_transaction and get_sample never write the table.
C7_PopulatedByCalibrate ==
    [][ /\ (calibration_data' # calibration_data \/ calWrites' > calWrites)
            => /\ call'.op \in {"connect", "calibrate"}
               /\ call'.steps = << WriteStep(transactions[get_calibration].cmd),
                                   ReadStep(34), PostStep >>
               /\ Len(call'.raw) = 34
               /\ calibration_data' = StructUnpack17H(call'.raw)
        /\ (call'.op = "connect")
            => /\ firstCmd' = Some(transactions[get_calibration].cmd)
               /\ (call'.outcome.kind = "return") => (calWrites' = 1 /\ calibration_data' # None)
               /\ (call'.outcome.kind = "raise") => calWrites' = 0
        /\ (call'.op \in {"_do_transaction", "get_sample"})
            => (calibration_data' = calibration_data /\ calWrites' = calWrites)
      ]_vars

C7_Witness ==
    /\ call.op = "calibrate"
    /\ call.outcome.kind = "return"
    /\ connected
    /\ calWrites = 2
    /\ firstCmd = Some(<<106>>)

\* C8: when get_sample decodes with low_current true, the scale is the
\* constant 99 and the value is raw * 0.0025 / 99 whatever cal_adj is; when
\* low_current is false or None the scale is cal_adj.
C8_ScaleSelection ==
    (call.op = "get_sample" /\ sp # None) =>
        IF low_current = Some(TRUE)
        THEN /\ call.scale = Some(<<99, 1>>)
             /\ call.outcome.kind = "return"
             /\ call.outcome.value.type = "float"
             /\ call.outcome.value.v = Frac(FromBytesBig(call.raw), 400 * 99)
        ELSE call.scale = cal_adj

C8_Witness ==
    /\ call.op = "get_sample"
    /\ low_current = Some(TRUE)
    /\ cal_adj = Some(Frac(0, 1000))
    /\ call.raw = <<0, 100>>
    /\ call.outcome.kind = "return"

\* C9: a calibration load whose get_calibration response is not exactly 34
\* bytes raises (struct.error, the specification's ProtocolError) and leaves
\* the calibration table as it was: unpopulated on a first load.
C9_ShortCalibration ==
    [][ (/\ call'.op \in {"connect", "calibrate"}
         /\ call'.steps # <<>>
         /\ Len(call'.raw) # 34)
            => /\ call'.outcome = Raise(ProtocolError)
               /\ calibration_data' = calibration_data
               /\ calWrites' = (IF call'.op = "connect" THEN 0 ELSE calWrites)
      ]_vars

C9_Witness ==
    /\ call.op = "connect"
    /\ Len(call.raw) = 33
    /\ call.outcome = Raise(ProtocolError)
    /\ calibration_data = None

\* C10: every call of the engine for a command of response length zero that
\* got its write and read through the stream has performed the 10 ms settle
\* delay, after the read, by the time control is back with the caller.
C10_SettleAlways ==
    (/\ connected
     /\ call.op = "_do_transaction"
     /\ call.command \in DOMAIN transactions
     /\ call.steps # <<>>
     /\ transactions[call.command].response_size = 0)
        => (Len(call.steps) >= 3 /\ call.steps[3] = SleepStep(10))

\* The place of a step in the order of lines 96-112: write, read, settle
\* delay, state update, decoder, and the decoder's own delay.
StepRank(step) ==
    CASE step.op = "write" -> 1
      [] step.op = "read" -> 2
      [] step = SleepStep(10) -> 3
      [] step.op = "state" -> 4
      [] step.op = "postprocess" -> 5
      [] OTHER -> 6

HasStep(steps, step) == \E i \in 1..Len(steps) : steps[i] = step

\* C11: every call of the engine for reset that got its write and read
\* through the stream has performed the 1 s settle delay by the time control
\* is back with the caller, whatever version the device reports.
C11_ResetSettles ==
    (/\ connected
     /\ call.op = "_do_transaction"
     /\ call.command = reset
     /\ call.steps # <<>>)
        => HasStep(call.steps, SleepStep(1000))

\* C12: executing set_voltage_3v0 leaves in cal_adj exactly what executing
\* set_voltage_3v2 would leave there, and the other way round, for the
\* calibration table loaded: the looked-up value when the call returns, the
\* old value when it raises.
C12_SharedScaleSlot ==
    [][ /\ (call'.op = "_do_transaction" /\ call'.command = set_voltage_3v0)
            => cal_adj' = (IF call'.outcome.kind = "return"
                           THEN Some(NewCalAdj(set_voltage_3v2, calibration_data[1]))
                           ELSE cal_adj)
        /\ (call'.op = "_do_transaction" /\ call'.command = set_voltage_3v2)
            => cal_adj' = (IF call'.outcome.kind = "return"
                           THEN Some(NewCalAdj(set_voltage_3v0, calibration_data[1]))
                           ELSE cal_adj)
      ]_vars

C12_Witness ==
    /\ call.op = "_do_transaction"
    /\ call.command = set_voltage_3v2
    /\ call.outcome.kind = "return"
    /\ devCal = PackBE16(CalTableSeq)
    /\ cal_adj = Some(Frac(1300, 1000))

\* C13 as stated: a command of response length zero that returns, returns
\* None.
C13_VoidReturnsNone ==
    (/\ call.op = "_do_transaction"
     /\ call.command \in DOMAIN transactions
     /\ call.outcome.kind = "return"
     /\ SelectSeq(call.steps, IsRead) = << ReadStep(0) >>)
        => call.outcome.value = NoneValue

\* C13 amended: a command of response length zero that returns, returns the
\* empty string (bytes.hex of the empty response); only reset returns None.
C13_VoidReturnsEmptyString ==
    (/\ call.op = "_do_transaction"
     /\ call.command \in DOMAIN transactions
     /\ call.outcome.kind = "return"
     /\ SelectSeq(call.steps, IsRead) = << ReadStep(0) >>)
        => call.outcome.value = (IF call.command = reset THEN NoneValue
                                 ELSE StrValue(<<>>))

C13_Witness ==
    /\ call.op = "_do_transaction"
    /\ call.command = set_psu_on
    /\ call.outcome = Return(StrValue(<<>>))

\* C14: a call of get_sample on an open stream writes nothing to the stream
\* and issues exactly one read, of 2 bytes.
C14_SampleReadsTwo ==
    [][ (call'.op = "get_sample" /\ sp # None)
            => /\ SelectSeq(call'.steps, IsWrite) = <<>>
               /\ SelectSeq(call'.steps, IsRead) = << ReadStep(2) >>
               /\ Len(call'.raw) = 2
               /\ firstCmd' = firstCmd
      ]_vars

C14_Witness ==
    /\ call.op = "get_sample"
    /\ call.steps = << ReadStep(2) >>
    /\ call.raw = <<255, 255>>
    /\ call.outcome.kind = "return"

\* C15: the steps of one engine call come in the order write, read, settle
\* delay, state update, decoder; a call that returns has written, read,
\* settled when the response length is zero and run the decoder; and when a
\* set_voltage_* or set_current_* call returns, the state update came before
\* the decoder and the fields hold that command's values.
C15_StepOrder ==
    IsEngineCall(call) =>
        /\ \A i \in 1..Len(call.steps) : \A j \in 1..Len(call.steps) :
              i < j => StepRank(call.steps[i]) < StepRank(call.steps[j])
        /\ (call.outcome.kind = "return") =>
              /\ \A k \in {1, 2, 5} : \E i \in 1..Len(call.steps) :
                    StepRank(call.steps[i]) = k
              /\ SettleNeeded(transactions[EngineCommand(call)])
                    => HasStep(call.steps, SleepStep(10))
              /\ (IsVoltage(EngineCommand(call)) \/ IsCurrent(EngineCommand(call)))
                    => HasStep(call.steps, StateStep)
              /\ IsVoltage(EngineCommand(call))
                    => /\ cal_adj = Some(NewCalAdj(call.command, calibration_data[1]))
                       /\ offset = Some(NewOffset(call.command, calibration_data[1]))
              /\ IsCurrent(EngineCommand(call))
                    => low_current = Some(call.command = set_current_low)

C15_Witness ==
    /\ call.op = "_do_transaction"
    /\ call.command = set_current_low
    /\ call.steps = << WriteStep(<<107>>), ReadStep(0), SleepStep(10), StateStep, PostStep >>
    /\ call.outcome.kind = "return"
    /\ low_current = Some(TRUE)

\* C16: in the main program, while sampling is on the only calls made are the
\* set_sample_on that started it and get_sample; and a program that has ended
\* after get_sample returned a value has sent set_sample_off (after which it
\* drains the input buffer and makes no further transaction).
C16_SamplingClosed ==
    /\ sampling => \/ call.op = "get_sample"
                   \/ (call.op = "_do_transaction" /\ call.command = set_sample_on)
    /\ (pc = "exit" /\ call.op = "get_sample" /\ call.outcome.kind = "return")
          => ~sampling

\* C17: every set_voltage_* name of the command table has an entry in both
\* index maps, with scale indexes in 0..7 and offset indexes in 8..16; and no
\* call of a registered set_voltage_* command made with the calibration table
\* loaded fails on a lookup.
C17_IndexMapsTotal ==
    /\ \A c \in DOMAIN transactions :
          IsVoltage(c) => /\ c \in DOMAIN cal_indexes
                          /\ c \in DOMAIN offset_indexes
                          /\ cal_indexes[c] \in 0..7
                          /\ offset_indexes[c] \in 8..16
    /\ (/\ call.op = "_do_transaction"
        /\ call.command \in DOMAIN transactions
        /\ IsVoltage(call.command)
        /\ call.steps # <<>>
        /\ calibration_data # None)
          => call.outcome.exc \notin {"KeyError", "IndexError", "TypeError"}

C17_Witness ==
    /\ call.op = "_do_transaction"
    /\ call.command = set_voltage_4v5
    /\ call.outcome.kind = "return"
    /\ offset = Some(calibration_data[1][17])

\* C18: whenever the byte of a set_voltage_* or set_current_* command has
\* been written and control is back with the caller, the fields hold that
\* command's values.
C18_StateFollowsWire ==
    (/\ call.op = "_do_transaction"
     /\ call.command \in DOMAIN transactions
     /\ call.steps # <<>>)
        => /\ IsVoltage(call.command)
              => /\ calibration_data # None
                 /\ cal_adj = Some(NewCalAdj(call.command, calibration_data[1]))
                 /\ offset = Some(NewOffset(call.command, calibration_data[1]))
           /\ IsCurrent(call.command)
              => low_current = Some(call.command = set_current_low)

\* C19 as stated: once a set_voltage_* command has set cal_adj and
\* low_current is false, get_sample returns a value for every raw sample.
C19_SampleAlwaysDecodes ==
    (/\ call.op = "get_sample"
     /\ sp # None
     /\ cal_adj # None
     /\ low_current = Some(FALSE))
        => call.outcome.kind = "return"

\* C19 amended: once a set_voltage_* command has set cal_adj and low_current
\* is false, get_sample returns raw * 0.0025 / cal_adj when the selected
\* calibration entry is not zero, and raises ZeroDivisionError when it is.
C19_DecodesUnlessZero ==
    (/\ call.op = "get_sample"
     /\ sp # None
     /\ cal_adj # None
     /\ low_current = Some(FALSE))
        => call.outcome =
              (IF cal_adj[1][1] = 0 THEN Raise("ZeroDivisionError")
               ELSE Return(FloatValue(Frac(FromBytesBig(call.raw) * cal_adj[1][2],
                                           400 * cal_adj[1][1]))))

C19_Witness ==
    /\ call.op = "get_sample"
    /\ low_current = Some(FALSE)
    /\ cal_adj = Some(Frac(0, 1000))
    /\ call.outcome = Raise("ZeroDivisionError")

\* C20: on an open stream, get_sample returns a value when the most recent
\* set_current_* command was set_current_low, even with no set_voltage_*
\* command ever executed; and when low_current is false or None and no
\* set_voltage_* command was ever executed it raises, after its 2-byte read.
C20_SampleOutcome ==
    (call.op = "get_sample" /\ connected /\ sp # None) =>
        /\ (sentCurrent = Some(set_current_low)) => call.outcome.kind = "return"
        /\ (~Truthy(low_current) /\ ~everVoltage)
              => (call.outcome.kind = "raise" /\ call.steps = << ReadStep(2) >>)

====
